---- MODULE Spec2Model ----
(***************************************************************************)
(* Model of the trial-key ledger of bot.py: the KeyStore class (pool of    *)
(* keys, claim map, configuration, the two persisted JSON documents) and   *)
(* the command handlers that call it.                                      *)
(*                                                                         *)
(* Scheduling.  The bot runs on one asyncio event loop.  A coroutine only  *)
(* gives up control at an await that really suspends.  Inside every        *)
(* `async with self._lock` block of KeyStore there is no await, and        *)
(* asyncio.Lock.acquire() returns without suspending when the lock is      *)
(* free, so the lock is never contended and each KeyStore method runs from *)
(* its first to its last statement without interleaving.  Every method is  *)
(* therefore one action; concurrent calls are calls that the loop runs in  *)
(* an order not chosen by the callers, i.e. any two consecutive actions.   *)
(*                                                                         *)
(* Strings are sequences of one-character strings, so that str.strip() is  *)
(* computed and not assumed.  An Optional value is the empty set (None) or *)
(* a singleton set.                                                        *)
(***************************************************************************)
EXTENDS Integers, Sequences, FiniteSets, TLC

VARIABLES
    pool,         \* KeyStore._pool: list of key strings
    claims,       \* KeyStore._claims: dict str(user_id) -> key string
    config,       \* KeyStore._config: {"min_days": int, "mode": str}
    locked,       \* KeyStore._lock is held
    keys_json,    \* content of keys.json on disk (Optional)
    claims_json,  \* content of claims.json on disk (Optional)
    last,         \* the last call made to the ledger and what it returned
    task,         \* per task: the ledger call it is in, its position and locals
    tmp,          \* the temporary file _atomic_write is writing
    torn,         \* the files on disk whose JSON text is incomplete
    save_failures \* how many saves have raised so far

vars ==
    <<pool, claims, config, locked, keys_json, claims_json, last,
      task, tmp, torn, save_failures>>

\* What the calls modelled as one step each leave alone
fvars == <<task, tmp, torn, save_failures>>

----------------------------------------------------------------------------
(* Bounds of the model *)

NumUsers == 2      \* user ids 1..NumUsers
MaxKeys == 2       \* longest list of keys handed to add_keys
MaxHeld == 3       \* add_keys is not called when pool and claims would hold more keys

(* Program constants *)

DEFAULT_MIN_DAYS == 7
DEFAULT_MODE == "account"

----------------------------------------------------------------------------
(* Values *)

None == {}
Some(v) == {v}

UserIds == 1..NumUsers

\* str(user_id)
Str(user_id) == ToString(user_id)

EmptyStr == <<>>
KeyA == <<"A">>
KeyB == <<"B">>
KeyC == <<"C">>
Keys == {KeyA, KeyB, KeyC}

\* Candidates as typed: blank, and padded with spaces
Blank == <<" ">>
PadA == <<" ", "A", " ">>
PadB == <<"B", " ">>

\* Key arguments of assign_key_to_user and remove_key_from_pool.
KeyArgs == Keys

RECURSIVE SeqsUpTo(_, _)
SeqsUpTo(S, n) ==
    IF n = 0 THEN {<<>>}
    ELSE LET shorter == SeqsUpTo(S, n - 1)
         IN  shorter \cup {Append(s, x) : s \in shorter, x \in S}

\* Arguments of add_keys: every list of up to MaxKeys keys, and lists with
\* empty, blank and padded candidates.
KeyLists ==
    SeqsUpTo(Keys, MaxKeys)
        \cup {<<EmptyStr>>, <<Blank>>, <<PadA>>, <<PadA, KeyA>>, <<Blank, PadB>>}

Range(s) == {s[i] : i \in 1..Len(s)}

----------------------------------------------------------------------------
(* Pure helpers *)

IsSpace(c) == c = " "

RECURSIVE lstrip(_)
lstrip(s) == IF s # <<>> /\ IsSpace(Head(s)) THEN lstrip(Tail(s)) ELSE s

RECURSIVE rstrip(_)
rstrip(s) ==
    IF s # <<>> /\ IsSpace(s[Len(s)]) THEN rstrip(SubSeq(s, 1, Len(s) - 1)) ELSE s

\* str.strip()
strip(s) == rstrip(lstrip(s))

\* Python truthiness of a str
Truthy(s) == s # EmptyStr

\* [k.strip() for k in keys if k and k.strip()]
RECURSIVE CleanKeys(_)
CleanKeys(keys) ==
    IF keys = <<>> THEN <<>>
    ELSE IF Truthy(Head(keys)) /\ Truthy(strip(Head(keys)))
         THEN <<strip(Head(keys))>> \o CleanKeys(Tail(keys))
         ELSE CleanKeys(Tail(keys))

\* set(self._claims.values())
ClaimValues == {claims[u] : u \in DOMAIN claims}

\* existing = set(self._pool) | set(self._claims.values())
Existing == Range(pool) \cup ClaimValues

\* new = [k for k in keys if k not in existing]
NewKeys(keys) == SelectSeq(keys, LAMBDA k : k \notin Existing)

\* list.remove(x): drops the first occurrence of x (ValueError swallowed by the caller)
RECURSIVE ListRemove(_, _)
ListRemove(s, x) ==
    IF s = <<>> THEN <<>>
    ELSE IF Head(s) = x THEN Tail(s)
         ELSE <<Head(s)>> \o ListRemove(Tail(s), x)

\* dict without the entry of uid
DictDel(d, uid) == [u \in (DOMAIN d) \ {uid} |-> d[u]]

\* dict with d[uid] = v
DictSet(d, uid, v) == [u \in (DOMAIN d) \cup {uid} |-> IF u = uid THEN v ELSE d[u]]

----------------------------------------------------------------------------
(* Persistence: _save_pool and _save_claims replace the whole document *)

PoolDoc == [pool |-> pool', config |-> config']
SavePool == keys_json' = Some(PoolDoc)
SaveClaims == claims_json' = Some(claims')

----------------------------------------------------------------------------
(* Read queries *)

has_claimed(user_id) == Str(user_id) \in DOMAIN claims

get_claim(user_id) ==
    IF Str(user_id) \in DOMAIN claims THEN Some(claims[Str(user_id)]) ELSE None

available_count == Len(pool)

claim_count == Cardinality(DOMAIN claims)

----------------------------------------------------------------------------
(* The record of the last call *)

Call(op, uid, key, flag, keys, retKey, retBool, retCount) ==
    [op |-> op, uid |-> uid, key |-> key, flag |-> flag,
     retKey |-> retKey, retBool |-> retBool, retCount |-> retCount]

NoCall == Call("init", "", EmptyStr, FALSE, <<>>, None, FALSE, 0)

\* Tasks of the event loop (one per interaction being handled)
NumTasks == 2

\* Saves that are let fail in one run
MaxSaveFailures == 1
TaskIds == 1..NumTasks

\* pool, claims and config as a call found them on entry; for the snapshot
\* queries, the copies they return
NoSnap ==
    [pool |-> <<>>, claims |-> <<>>,
     config |-> [min_days |-> DEFAULT_MIN_DAYS, mode |-> DEFAULT_MODE]]

\* A task that is in no ledger call
Idle ==
    [pc |-> "idle", op |-> "", uid |-> "", key |-> EmptyStr, flag |-> FALSE,
     keys |-> <<>>, days |-> None, mode |-> None,
     retKey |-> None, retBool |-> FALSE, retCount |-> 0, err |-> "", snap |-> NoSnap]

NoTmp == [path |-> "", keys |-> None, claims |-> None]

----------------------------------------------------------------------------
Init ==
    /\ pool = <<>>
    /\ claims = <<>>
    /\ config = [min_days |-> DEFAULT_MIN_DAYS, mode |-> DEFAULT_MODE]
    /\ locked = FALSE
    /\ keys_json = None
    /\ claims_json = None
    /\ last = NoCall
    /\ task = [t \in TaskIds |-> Idle]
    /\ tmp = NoTmp
    /\ torn = {}
    /\ save_failures = 0

----------------------------------------------------------------------------
(* KeyStore methods.  Each takes the lock, runs and releases it in one step. *)

\* async with self._lock: entered only when the lock is free, left with it free
WithLock == ~locked /\ locked' = FALSE

\* (a slip: the check for an existing claim left out)
HoldsClaimNever(uid) == FALSE

\* str(user_id) in self._claims
HoldsClaim(uid) == uid \in DOMAIN claims

\* (a slip: self._pool.pop(), which takes the last element)
ListPopLast(p) == [key |-> p[Len(p)], rest |-> SubSeq(p, 1, Len(p) - 1)]

\* self._pool.pop(0): the element taken and the list left
ListPop0(p) == [key |-> Head(p), rest |-> Tail(p)]

\* (a slip: the length of the cleaned list instead of the new keys)
AddedCountAll(keys, new) == Len(keys)

\* return len(new)
AddedCount(keys, new) == Len(new)

add_keys(keys) ==
    LET clean == CleanKeys(keys)
        new == NewKeys(clean)
    IN  IF clean = <<>>
        THEN /\ last' = Call("add_keys", "", EmptyStr, FALSE, keys, None, FALSE, 0)
             /\ UNCHANGED <<pool, claims, config, locked, keys_json, claims_json>>
        ELSE /\ WithLock
             /\ IF new = <<>>
                THEN /\ last' = Call("add_keys", "", EmptyStr, FALSE, keys, None, FALSE, 0)
                     /\ UNCHANGED <<pool, claims, config, keys_json, claims_json>>
                ELSE /\ pool' = pool \o new
                     /\ UNCHANGED <<claims, config, claims_json>>
                     /\ SavePool
                     /\ last' = Call("add_keys", "", EmptyStr, FALSE, keys, None, FALSE,
                                     AddedCount(clean, new))

claim(user_id) ==
    LET uid == Str(user_id)
    IN  /\ WithLock
        /\ IF HoldsClaim(uid) \/ pool = <<>>
           THEN /\ last' = Call("claim", uid, EmptyStr, FALSE, <<>>, None, FALSE, 0)
                /\ UNCHANGED <<pool, claims, config, keys_json, claims_json>>
           ELSE LET popped == ListPop0(pool)
                IN  /\ pool' = popped.rest
                    /\ claims' = DictSet(claims, uid, popped.key)
                    /\ UNCHANGED config
                    /\ SavePool
                    /\ SaveClaims
                    /\ last' = Call("claim", uid, EmptyStr, FALSE, <<>>,
                                    Some(popped.key), FALSE, 0)

revoke_claim(user_id, return_to_pool) ==
    LET uid == Str(user_id)
        \* key = self._claims.pop(uid, None)
        key == IF uid \in DOMAIN claims THEN Some(claims[uid]) ELSE None
        \* "if key": neither None nor the empty string
        truthy == key # None /\ \A k \in key : Truthy(k)
    IN  /\ WithLock
        /\ claims' = DictDel(claims, uid)
        /\ pool' = IF truthy /\ return_to_pool
                   THEN LET k == CHOOSE k \in key : TRUE
                        IN  IF k \notin Range(pool) THEN <<k>> \o pool ELSE pool
                   ELSE pool
        /\ UNCHANGED config
        /\ IF truthy
           THEN SavePool /\ SaveClaims
           ELSE UNCHANGED <<keys_json, claims_json>>
        /\ last' = Call("revoke_claim", uid, EmptyStr, return_to_pool, <<>>, key, FALSE, 0)

assign_key_to_user(user_id, key, remove_from_pool) ==
    LET uid == Str(user_id)
    IN  /\ WithLock
        /\ IF HoldsClaim(uid)
           THEN /\ last' = Call("assign_key_to_user", uid, key, remove_from_pool, <<>>,
                                None, FALSE, 0)
                /\ UNCHANGED <<pool, claims, config, keys_json, claims_json>>
           ELSE /\ pool' = IF remove_from_pool THEN ListRemove(pool, key) ELSE pool
                /\ claims' = DictSet(claims, uid, key)
                /\ UNCHANGED config
                /\ SavePool
                /\ SaveClaims
                /\ last' = Call("assign_key_to_user", uid, key, remove_from_pool, <<>>,
                                None, TRUE, 0)

\* (a slip: self._pool.remove(key), which drops one occurrence only)
WithoutFirst(p, key) == ListRemove(p, key)

\* [k for k in self._pool if k != key]
WithoutKey(p, key) == SelectSeq(p, LAMBDA k : k # key)

remove_key_from_pool(key) ==
    /\ WithLock
    /\ UNCHANGED config
    /\ IF key \in Range(pool)
       THEN /\ pool' = WithoutKey(pool, key)
            /\ UNCHANGED <<claims, claims_json>>
            /\ SavePool
            /\ last' = Call("remove_key_from_pool", "", key, FALSE, <<>>, None, TRUE, 0)
       ELSE LET holders == {u \in DOMAIN claims : claims[u] = key}
                removed_from_claims == holders # {}
            IN  /\ claims' = [u \in (DOMAIN claims) \ holders |-> claims[u]]
                /\ UNCHANGED <<pool, keys_json>>
                /\ IF removed_from_claims THEN SaveClaims ELSE UNCHANGED claims_json
                /\ last' = Call("remove_key_from_pool", "", key, FALSE, <<>>, None,
                                removed_from_claims, 0)

----------------------------------------------------------------------------
(* Command handlers that add their own logic around a ledger call *)

\* /assign: refuses a key that is currently claimed, then force-assigns
cmd_assign(user_id, key) ==
    IF key \in ClaimValues
    THEN /\ last' = Call("cmd_assign", Str(user_id), key, TRUE, <<>>, None, FALSE, 0)
         /\ UNCHANGED <<pool, claims, config, locked, keys_json, claims_json>>
    ELSE assign_key_to_user(user_id, key, TRUE)

\* Try button, for a user who meets the age requirement
try_button(user_id) ==
    IF has_claimed(user_id)
    THEN /\ last' = Call("try_button", Str(user_id), EmptyStr, FALSE, <<>>,
                         get_claim(user_id), FALSE, 0)
         /\ UNCHANGED <<pool, claims, config, locked, keys_json, claims_json>>
    ELSE claim(user_id)

----------------------------------------------------------------------------
AddKeys ==
    \E keys \in KeyLists :
        /\ UNCHANGED fvars
        /\ available_count + claim_count + Len(NewKeys(CleanKeys(keys))) <= MaxHeld
        /\ add_keys(keys)
Claim == \E u \in UserIds : claim(u) /\ UNCHANGED fvars
RevokeClaim ==
    \E u \in UserIds, r \in BOOLEAN : revoke_claim(u, r) /\ UNCHANGED fvars
AssignKeyToUser ==
    \E u \in UserIds, k \in KeyArgs, r \in BOOLEAN :
        assign_key_to_user(u, k, r) /\ UNCHANGED fvars
RemoveKeyFromPool == \E k \in KeyArgs : remove_key_from_pool(k) /\ UNCHANGED fvars
CmdAssign == \E u \in UserIds, k \in KeyArgs : cmd_assign(u, k) /\ UNCHANGED fvars
TryButton == \E u \in UserIds : try_button(u) /\ UNCHANGED fvars

Next ==
    \/ AddKeys
    \/ Claim
    \/ RevokeClaim
    \/ AssignKeyToUser
    \/ RemoveKeyFromPool
    \/ CmdAssign
    \/ TryButton

Spec == Init /\ [][Next]_vars

\* The ledger used through add_keys, claim and revoke_claim only
NextCore ==
    \/ AddKeys
    \/ Claim
    \/ RevokeClaim

SpecCore == Init /\ [][NextCore]_vars

----------------------------------------------------------------------------
(* Configuration and reload *)

\* The value inside an Optional that is not None
The(opt) == CHOOSE v \in opt : TRUE

ValidModes == {"account", "guild"}
DaysArgs == {None, Some(0), Some(30)}
ModeArgs == {None, Some("account"), Some("guild"), Some("bogus")}

\* mode is not None and mode not in ("account", "guild"): ValueError
ModeRejected(mode) == mode # None /\ ~(mode \subseteq ValidModes)

\* self._config after the min_days assignment, which runs before the mode is
\* looked at (int() of an int is that int)
WithDays(cfg, min_days) ==
    IF min_days # None THEN [cfg EXCEPT !.min_days = The(min_days)] ELSE cfg

WithMode(cfg, mode) ==
    IF mode # None THEN [cfg EXCEPT !.mode = The(mode)] ELSE cfg

\* retBool records whether the call returned (TRUE) or raised ValueError
set_config(min_days, mode) ==
    /\ WithLock
    /\ UNCHANGED <<pool, claims, claims_json>>
    /\ IF ModeRejected(mode)
       THEN /\ config' = WithDays(config, min_days)
            /\ UNCHANGED keys_json
            /\ last' = Call("set_config", "", EmptyStr, FALSE, <<>>, None, FALSE, 0)
       ELSE /\ config' = WithMode(WithDays(config, min_days), mode)
            /\ SavePool
            /\ last' = Call("set_config", "", EmptyStr, FALSE, <<>>, None, TRUE, 0)

\* _load_json(path, default): the document, or default when there is none
LoadJson(doc, default) == IF doc = None THEN default ELSE The(doc)

\* list(dict.fromkeys(s)): first occurrences, in order
RECURSIVE DictFromKeys(_)
DictFromKeys(s) ==
    IF s = <<>> THEN <<>>
    ELSE LET front == DictFromKeys(SubSeq(s, 1, Len(s) - 1))
             x == s[Len(s)]
         IN  IF x \in Range(front) THEN front ELSE Append(front, x)

DefaultPoolDoc ==
    [pool |-> <<>>, config |-> [min_days |-> DEFAULT_MIN_DAYS, mode |-> DEFAULT_MODE]]

\* What _load puts in self._pool, self._config and self._claims
LoadPool(doc) == DictFromKeys(CleanKeys(LoadJson(doc, DefaultPoolDoc).pool))
LoadConfig(doc) == LoadJson(doc, DefaultPoolDoc).config
LoadClaims(doc) == LoadJson(doc, <<>>)

\* The process is started again: KeyStore(KEYS_PATH, CLAIMS_PATH)
Restart ==
    /\ ~locked
    /\ pool' = LoadPool(keys_json)
    /\ config' = LoadConfig(keys_json)
    /\ claims' = LoadClaims(claims_json)
    /\ locked' = FALSE
    /\ UNCHANGED <<keys_json, claims_json>>
    /\ last' = Call("restart", "", EmptyStr, FALSE, <<>>, None, FALSE, 0)
    /\ UNCHANGED fvars

SetConfig == \E d \in DaysArgs, m \in ModeArgs : set_config(d, m) /\ UNCHANGED fvars

\* The ledger with its configuration, across restarts
NextConfig ==
    \/ AddKeys
    \/ Claim
    \/ RevokeClaim
    \/ SetConfig
    \/ Restart

SpecConfig == Init /\ [][NextConfig]_vars

----------------------------------------------------------------------------
(* The /addkeys command *)

\* s.split(sep): the pieces of s between the separators, at least one
RECURSIVE Split(_, _)
Split(s, sep) ==
    IF s = <<>> THEN <<EmptyStr>>
    ELSE LET rest == Split(Tail(s), sep)
         IN  IF Head(s) = sep
             THEN <<EmptyStr>> \o rest
             ELSE <<(<<Head(s)>> \o Head(rest))>> \o Tail(rest)

\* s.splitlines(): as split on line ends, without a last empty line
SplitLines(s) ==
    LET lines == Split(s, "\n")
    IN  IF lines[Len(lines)] = EmptyStr
        THEN SubSeq(lines, 1, Len(lines) - 1)
        ELSE lines

RECURSIVE Flatten(_)
Flatten(ss) == IF ss = <<>> THEN <<>> ELSE Head(ss) \o Flatten(Tail(ss))

\* [p.strip() for chunk in keys.splitlines() for p in chunk.split(",")]
Parts(text) ==
    LET lines == SplitLines(text)
        pieces == Flatten([i \in 1..Len(lines) |-> Split(lines[i], ",")])
    IN  [i \in 1..Len(pieces) |-> strip(pieces[i])]

\* Texts an administrator types after /addkeys
AddkeysTexts ==
    { <<"A", ",", "A">>,
      <<"A", "\n", "B">>,
      <<" ", "B", " ", ",", "C", "\n">>,
      <<",", "\n", " ">>,
      <<>> }

cmd_addkeys(text) == add_keys(Parts(text))

CmdAddkeys ==
    \E text \in AddkeysTexts :
        /\ UNCHANGED fvars
        /\ available_count + claim_count + Len(NewKeys(CleanKeys(Parts(text)))) <= MaxHeld
        /\ cmd_addkeys(text)

\* The ledger used through add_keys (also by /addkeys) and claim only
NextAddClaim ==
    \/ AddKeys
    \/ CmdAddkeys
    \/ Claim

SpecAddClaim == Init /\ [][NextAddClaim]_vars

----------------------------------------------------------------------------
(* The ledger calls statement by statement, as tasks of one event loop *)

\* Arguments of the calls
TaskKeys == {KeyA, KeyB}
TaskLists == {<<KeyA>>, <<PadB, KeyA>>, <<Blank>>}
TaskDays == {None, Some(0)}
TaskModes == {None, Some("guild"), Some("bogus")}

Invocation(op, uid, key, flag, keys, days, mode) ==
    [Idle EXCEPT !.op = op, !.uid = uid, !.key = key, !.flag = flag,
                 !.keys = keys, !.days = days, !.mode = mode]

Invocations ==
    {Invocation("add_keys", "", EmptyStr, FALSE, keys, None, None) : keys \in TaskLists}
    \cup {Invocation("claim", Str(u), EmptyStr, FALSE, <<>>, None, None) : u \in UserIds}
    \cup {Invocation("revoke_claim", Str(u), EmptyStr, r, <<>>, None, None) :
            u \in UserIds, r \in BOOLEAN}
    \cup {Invocation("assign_key_to_user", Str(u), k, r, <<>>, None, None) :
            u \in UserIds, k \in TaskKeys, r \in BOOLEAN}
    \cup {Invocation("remove_key_from_pool", "", k, FALSE, <<>>, None, None) :
            k \in TaskKeys}
    \cup {Invocation("set_config", "", EmptyStr, FALSE, <<>>, d, m) :
            d \in TaskDays, m \in TaskModes}

Queries == {"has_claimed", "get_claim", "available_count", "claim_count", "snapshot"}

\* Positions between two statements of a method body, and the return into
\* the handler: the bodies hold no await and the handler awaits next when it
\* answers the interaction, so a task at one of them has not given the event
\* loop back
BodyPcs ==
    {"add_keys", "claim", "claim_bind", "revoke_claim", "revoke_return",
     "assign_key_to_user", "assign_bind", "remove_key_from_pool",
     "set_config", "set_config_mode",
     "save_pool", "save_pool_dump", "save_pool_replace",
     "save_claims", "save_claims_dump", "save_claims_replace", "release",
     "returned", "raised"}

SavePcs ==
    {"save_pool", "save_pool_dump", "save_pool_replace",
     "save_claims", "save_claims_dump", "save_claims_replace"}

\* (threads: every statement boundary lets another task in)
RunningNever(t) == FALSE

\* Task t is in the middle of a method body
Running(t) == task[t].pc \in BodyPcs

\* The event loop resumes task t only when no other task is running
MayStep(t) == \A u \in TaskIds \ {t} : ~Running(u)

\* (a slip: the body is entered without the lock, from a thread of its own)
MayEnterAlways(t) == TRUE

\* async with self._lock: entered at once when the lock is free
MayEnter(t) == MayStep(t) /\ ~locked

Snap == [pool |-> pool, claims |-> claims, config |-> config]

\* Methods that save both documents
SavesBoth == {"claim", "revoke_claim", "assign_key_to_user"}

\* (a slip: lock.acquire() and lock.release() around the body without
\* try/finally, so an exception leaves the method with the lock held)
OnRaiseKeepLock == "raised"

\* An exception inside `async with self._lock` leaves through __aexit__
OnRaise == "release"

\* Task t makes call c: the statements before the lock, and the lock
Enter(t, c) ==
    /\ task[t].pc = "idle"
    /\ UNCHANGED <<pool, claims, config, keys_json, claims_json, last, tmp, torn,
                   save_failures>>
    /\ IF c.op = "add_keys" /\ CleanKeys(c.keys) = <<>>
       THEN /\ MayStep(t)
            /\ task' = [task EXCEPT ![t] = [c EXCEPT !.pc = "returned", !.snap = Snap]]
            /\ UNCHANGED locked
       ELSE /\ MayEnter(t)
            /\ locked' = TRUE
            /\ task' = [task EXCEPT ![t] =
                           [c EXCEPT !.pc = c.op, !.snap = Snap,
                                     !.keys = CleanKeys(c.keys)]]

Begin(t) == \E c \in Invocations : Enter(t, c)

\* (a slip: os.replace inside the with block, before the text is complete)
AfterOpenEarly(pc) ==
    IF pc = "save_pool" THEN "save_pool_replace" ELSE "save_claims_replace"

\* _atomic_write: json.dump follows the creation of the temporary file
AfterOpen(pc) == IF pc = "save_pool" THEN "save_pool_dump" ELSE "save_claims_dump"

\* The files after os.replace(tmpname, path)
Replaced(path) ==
    IF "tmp" \in torn THEN (torn \ {"tmp"}) \cup {path} ELSE torn \ {path}

\* One statement of a method body
Step(t) ==
    LET me == task[t]
        goto(pc) == [task EXCEPT ![t].pc = pc]
    IN
    /\ MayStep(t)
    /\ UNCHANGED <<last, save_failures>>
    /\ CASE me.pc = "add_keys" ->
              LET new == NewKeys(me.keys)
              IN  /\ UNCHANGED <<claims, config, locked, keys_json, claims_json, tmp, torn>>
                  /\ IF new = <<>>
                     THEN /\ UNCHANGED pool
                          /\ task' = goto("release")
                     ELSE /\ pool' = pool \o new
                          /\ task' = [task EXCEPT ![t].pc = "save_pool",
                                                  ![t].retCount = AddedCount(me.keys, new)]
         [] me.pc = "claim" ->
              /\ UNCHANGED <<claims, config, locked, keys_json, claims_json, tmp, torn>>
              /\ IF HoldsClaim(me.uid) \/ pool = <<>>
                 THEN /\ UNCHANGED pool
                      /\ task' = goto("release")
                 ELSE /\ pool' = ListPop0(pool).rest
                      /\ task' = [task EXCEPT ![t].pc = "claim_bind",
                                              ![t].retKey = Some(ListPop0(pool).key)]
         [] me.pc = "claim_bind" ->
              /\ UNCHANGED <<pool, config, locked, keys_json, claims_json, tmp, torn>>
              /\ claims' = DictSet(claims, me.uid, The(me.retKey))
              /\ task' = goto("save_pool")
         [] me.pc = "revoke_claim" ->
              /\ UNCHANGED <<pool, config, locked, keys_json, claims_json, tmp, torn>>
              /\ claims' = DictDel(claims, me.uid)
              /\ task' = [task EXCEPT ![t].pc = "revoke_return",
                                      ![t].retKey = IF me.uid \in DOMAIN claims
                                                    THEN Some(claims[me.uid]) ELSE None]
         [] me.pc = "revoke_return" ->
              LET truthy == me.retKey # None /\ \A k \in me.retKey : Truthy(k)
              IN  /\ UNCHANGED <<claims, config, locked, keys_json, claims_json, tmp, torn>>
                  /\ pool' = IF truthy /\ me.flag /\ The(me.retKey) \notin Range(pool)
                             THEN <<The(me.retKey)>> \o pool
                             ELSE pool
                  /\ task' = goto(IF truthy THEN "save_pool" ELSE "release")
         [] me.pc = "assign_key_to_user" ->
              /\ UNCHANGED <<claims, config, locked, keys_json, claims_json, tmp, torn>>
              /\ IF HoldsClaim(me.uid)
                 THEN /\ UNCHANGED pool
                      /\ task' = goto("release")
                 ELSE /\ pool' = IF me.flag THEN ListRemove(pool, me.key) ELSE pool
                      /\ task' = goto("assign_bind")
         [] me.pc = "assign_bind" ->
              /\ UNCHANGED <<pool, config, locked, keys_json, claims_json, tmp, torn>>
              /\ claims' = DictSet(claims, me.uid, me.key)
              /\ task' = [task EXCEPT ![t].pc = "save_pool", ![t].retBool = TRUE]
         [] me.pc = "remove_key_from_pool" ->
              /\ UNCHANGED <<config, locked, keys_json, claims_json, tmp, torn>>
              /\ IF me.key \in Range(pool)
                 THEN /\ pool' = WithoutKey(pool, me.key)
                      /\ UNCHANGED claims
                      /\ task' = [task EXCEPT ![t].pc = "save_pool", ![t].retBool = TRUE]
                 ELSE LET holders == {u \in DOMAIN claims : claims[u] = me.key}
                      IN  /\ UNCHANGED pool
                          /\ claims' = [u \in (DOMAIN claims) \ holders |-> claims[u]]
                          /\ task' = IF holders # {}
                                     THEN [task EXCEPT ![t].pc = "save_claims",
                                                       ![t].retBool = TRUE]
                                     ELSE goto("release")
         [] me.pc = "set_config" ->
              /\ UNCHANGED <<pool, claims, locked, keys_json, claims_json, tmp, torn>>
              /\ config' = WithDays(config, me.days)
              /\ task' = goto("set_config_mode")
         [] me.pc = "set_config_mode" ->
              /\ UNCHANGED <<pool, claims, locked, keys_json, claims_json, tmp, torn>>
              /\ IF ModeRejected(me.mode)
                 THEN /\ UNCHANGED config
                      /\ task' = [task EXCEPT ![t].pc = OnRaise, ![t].err = "ValueError"]
                 ELSE /\ config' = WithMode(config, me.mode)
                      /\ task' = goto("save_pool")
         [] me.pc = "save_pool" ->
              /\ UNCHANGED <<pool, claims, config, locked, keys_json, claims_json>>
              /\ tmp' = [path |-> "keys.json",
                         keys |-> Some([pool |-> pool, config |-> config]),
                         claims |-> None]
              /\ torn' = torn \cup {"tmp"}
              /\ task' = goto(AfterOpen(me.pc))
         [] me.pc = "save_claims" ->
              /\ UNCHANGED <<pool, claims, config, locked, keys_json, claims_json>>
              /\ tmp' = [path |-> "claims.json", keys |-> None, claims |-> Some(claims)]
              /\ torn' = torn \cup {"tmp"}
              /\ task' = goto(AfterOpen(me.pc))
         [] me.pc \in {"save_pool_dump", "save_claims_dump"} ->
              /\ UNCHANGED <<pool, claims, config, locked, keys_json, claims_json, tmp>>
              /\ torn' = torn \ {"tmp"}
              /\ task' = goto(IF me.pc = "save_pool_dump"
                              THEN "save_pool_replace" ELSE "save_claims_replace")
         [] me.pc = "save_pool_replace" ->
              /\ UNCHANGED <<pool, claims, config, locked, claims_json>>
              /\ keys_json' = tmp.keys
              /\ torn' = Replaced("keys.json")
              /\ tmp' = NoTmp
              /\ task' = goto(IF me.op \in SavesBoth THEN "save_claims" ELSE "release")
         [] me.pc = "save_claims_replace" ->
              /\ UNCHANGED <<pool, claims, config, locked, keys_json>>
              /\ claims_json' = tmp.claims
              /\ torn' = Replaced("claims.json")
              /\ tmp' = NoTmp
              /\ task' = goto("release")
         [] me.pc = "release" ->
              /\ UNCHANGED <<pool, claims, config, keys_json, claims_json, tmp, torn>>
              /\ locked' = FALSE
              /\ task' = goto(IF me.err = "" THEN "returned" ELSE "raised")
         [] OTHER -> FALSE

\* _atomic_write raises (no room, no permission): the target is untouched.
\* The temporary file may stay behind under its random name; nothing reads
\* it again, so it is dropped here.
SaveFails(t) ==
    /\ MayStep(t)
    /\ task[t].pc \in SavePcs
    /\ save_failures < MaxSaveFailures
    /\ save_failures' = save_failures + 1
    /\ task' = [task EXCEPT ![t].pc = OnRaise, ![t].err = "OSError"]
    /\ tmp' = NoTmp
    /\ torn' = torn \ {"tmp"}
    /\ UNCHANGED <<pool, claims, config, locked, keys_json, claims_json, last>>

\* A handler asks one of the queries that take no lock
Query(t) ==
    \E q \in Queries, u \in UserIds :
        /\ task[t].pc = "idle"
        /\ MayStep(t)
        /\ task' = [task EXCEPT ![t] =
                       [Idle EXCEPT !.pc = "returned", !.op = q, !.uid = Str(u),
                                    !.retBool = has_claimed(u),
                                    !.retKey = get_claim(u),
                                    !.retCount = IF q = "claim_count"
                                                 THEN claim_count ELSE available_count,
                                    !.snap = Snap]]
        /\ UNCHANGED <<pool, claims, config, locked, keys_json, claims_json, last, tmp, torn,
                       save_failures>>

\* The handler has used what the call gave it
Finish(t) ==
    /\ MayStep(t)
    /\ task[t].pc \in {"returned", "raised"}
    /\ task' = [task EXCEPT ![t] = Idle]
    /\ UNCHANGED <<pool, claims, config, locked, keys_json, claims_json, last, tmp, torn,
                   save_failures>>

\* The process dies at any point and is started again: every task and the
\* memory are gone, the documents are as they were at that instant
Crash ==
    /\ task' = [t \in TaskIds |-> Idle]
    /\ locked' = FALSE
    /\ pool' = LoadPool(keys_json)
    /\ config' = LoadConfig(keys_json)
    /\ claims' = LoadClaims(claims_json)
    /\ tmp' = NoTmp
    /\ torn' = torn \ {"tmp"}
    /\ UNCHANGED <<keys_json, claims_json, last, save_failures>>

Begins == \E t \in TaskIds : Begin(t)
Steps == \E t \in TaskIds : Step(t)
SaveFailures == \E t \in TaskIds : SaveFails(t)
QueryCalls == \E t \in TaskIds : Query(t)
Finishes == \E t \in TaskIds : Finish(t)

\* Concurrent handlers
NextTasks ==
    \/ Begins
    \/ Steps
    \/ QueryCalls
    \/ Finishes

SpecTasks == Init /\ [][NextTasks]_vars

\* Concurrent handlers, with saves that may fail
NextFail ==
    \/ Begins
    \/ Steps
    \/ SaveFailures
    \/ Finishes

SpecFail == Init /\ [][NextFail]_vars

\* One call of each mutating method, set_config with a mode that is accepted
\* and one that is refused
LiveInvocations ==
    {c \in Invocations :
        /\ c.key \in {EmptyStr, KeyA}
        /\ c.keys \in {<<>>, <<KeyA>>}
        /\ c.op \in {"revoke_claim", "assign_key_to_user"} => c.flag
        /\ c.op = "set_config" => (c.days = None /\ c.mode # None)}

LiveBegins == \E t \in TaskIds, c \in LiveInvocations : Enter(t, c)

NextLive ==
    \/ LiveBegins
    \/ Steps
    \/ SaveFailures
    \/ Finishes

\* Every running task goes on to its next statement: a coroutine that has not
\* awaited keeps the thread, and the handler then awaits
SpecLive ==
    /\ Init
    /\ [][NextLive]_vars
    /\ WF_vars(Steps)
    /\ WF_vars(Finishes)

\* Concurrent handlers in a process that may die and be started again
NextCrash ==
    \/ Begins
    \/ Steps
    \/ Finishes
    \/ Crash

SpecCrash == Init /\ [][NextCrash]_vars

----------------------------------------------------------------------------
(* Properties *)

\* Number of keys the ledger holds: availableCount + claimCount
Held == available_count + claim_count

\* The identities other than uid that hold key k
OtherHolders(uid, k) == {v \in DOMAIN claims : v # uid /\ claims[v] = k}

\* s without the repeats of its elements (first occurrences kept)
RECURSIVE Distinct(_)
Distinct(s) ==
    IF s = <<>> THEN <<>>
    ELSE LET front == Distinct(SubSeq(s, 1, Len(s) - 1))
             x == s[Len(s)]
         IN  IF x \in Range(front) THEN front ELSE Append(front, x)

\* C1: no key is both in the pool and a value of the claim map.
C1_NoKeyPooledAndClaimed == Range(pool) \cap ClaimValues = {}

\* C2: the claim map is injective: no key is bound to two distinct identities.
C2_ClaimsInjective ==
    \A u, v \in DOMAIN claims : claims[u] = claims[v] => u = v

\* C3: assign_key_to_user called with a key that is bound to a different
\* identity returns failure and leaves the pool and the claim map unchanged.
C3_AssignRejectsBoundKey ==
    [][(/\ last'.op = "assign_key_to_user"
        /\ OtherHolders(last'.uid, last'.key) # {})
       => (/\ last'.retBool = FALSE
           /\ pool' = pool
           /\ claims' = claims)]_vars

\* C4: of two assign_key_to_user calls for the same key by two different
\* identities that held no claim, run one right after the other in either
\* order, the first succeeds and the second returns the conflict outcome.
C4_ConcurrentAssignOneWinner ==
    [][(/\ last.op = "assign_key_to_user"
        /\ last.retBool = TRUE
        /\ last'.op = "assign_key_to_user"
        /\ last'.key = last.key
        /\ last'.uid # last.uid
        /\ last'.uid \notin DOMAIN claims)
       => last'.retBool = FALSE]_vars

\* C5 as stated: under add_keys, claim and revoke_claim alone,
\* availableCount + claimCount equals the sum of the counts add_keys returned:
\* every add_keys raises it by the count returned and no other call changes it.
C5_Conservation ==
    [][Held' = Held + (IF last'.op = "add_keys" THEN last'.retCount ELSE 0)]_vars

\* A revoke_claim call that removed a claim and did not put its key (back)
\* into the pool: return_to_pool was false, or the key was in the pool already.
RevokeDropsKey ==
    /\ last'.op = "revoke_claim"
    /\ last'.retKey # None
    /\ \/ ~last'.flag
       \/ last'.retKey \subseteq Range(pool)

\* C5 as amended: under add_keys, claim and revoke_claim alone,
\* availableCount + claimCount equals the sum of the counts add_keys returned
\* minus the number of revoke_claim calls that removed a claim without putting
\* its key into the pool; no other call changes it.
C5_ConservationAccounting ==
    [][Held' = Held + (IF last'.op = "add_keys" THEN last'.retCount ELSE 0)
                    - (IF RevokeDropsKey THEN 1 ELSE 0)]_vars

\* C5 witness: keys were added, one was claimed and then revoked without
\* being returned, and the ledger still holds keys.
C5_Witness ==
    /\ last.op = "revoke_claim"
    /\ last.retKey # None
    /\ ~last.flag
    /\ Held >= 2

\* C6: claim by an identity that already holds a claim returns None and
\* changes neither the pool nor any claim; of two claim calls by one identity
\* run one right after the other, at most one obtains a key.
C6_ClaimIdempotent ==
    [][/\ (last'.op = "claim" /\ last'.uid \in DOMAIN claims)
          => (/\ last'.retKey = None
              /\ pool' = pool
              /\ claims' = claims)
       /\ (/\ last.op = "claim"
           /\ last'.op = "claim"
           /\ last'.uid = last.uid
           /\ last.retKey # None)
          => last'.retKey = None]_vars

\* C6 witness: an identity holding a claim called claim again, was given
\* nothing, while the pool had keys and another identity held a claim too.
C6_Witness ==
    /\ last.op = "claim"
    /\ last.retKey = None
    /\ last.uid \in DOMAIN claims
    /\ pool # <<>>
    /\ Cardinality(DOMAIN claims) >= 2

\* C7: claim by an identity without a claim on a non-empty pool returns the
\* head of the pool, leaves the rest of the pool in order, and adds exactly
\* identity -> that key to the claim map; on an empty pool it returns None and
\* changes nothing.
C7_ClaimFifo ==
    [][last'.op = "claim" =>
        /\ (last'.uid \notin DOMAIN claims /\ pool # <<>>)
           => (/\ last'.retKey = Some(Head(pool))
               /\ pool' = Tail(pool)
               /\ DOMAIN claims' = DOMAIN claims \cup {last'.uid}
               /\ claims'[last'.uid] = Head(pool)
               /\ \A v \in DOMAIN claims : claims'[v] = claims[v])
        /\ pool = <<>>
           => (/\ last'.retKey = None
               /\ pool' = pool
               /\ claims' = claims)]_vars

\* C7 witness: a claim was served from a pool of at least three keys, two
\* different keys remaining behind it.
C7_Witness ==
    /\ last.op = "claim"
    /\ last.retKey # None
    /\ Len(pool) >= 2
    /\ pool[1] # pool[2]
    /\ last.retKey \cap Range(pool) = {}

\* C8: when revoke_claim(user1, return_to_pool=True) returned key K and the
\* next call is claim by an identity holding no claim, that claim returns K.
C8_ReuseAtHead ==
    [][(/\ last.op = "revoke_claim"
        /\ last.flag
        /\ last.retKey # None
        /\ last'.op = "claim"
        /\ last'.uid \notin DOMAIN claims)
       => last'.retKey = last.retKey]_vars

\* C9: add_keys appends to the pool tail, in candidate order, exactly the
\* candidates that are neither pooled nor claimed, keeps the pool prefix and
\* the claim map, returns the number of distinct new keys, the pool growing
\* by the count returned; with count 0 nothing changes and nothing is saved.
C9_AddKeysAppendsNew ==
    [][\A keys \in KeyLists :
        add_keys(keys) =>
            LET fresh == SelectSeq(CleanKeys(keys),
                                   LAMBDA k : k \notin Range(pool) /\ k \notin ClaimValues)
                count == last'.retCount
            IN  /\ pool' = pool \o Distinct(fresh)
                /\ claims' = claims
                /\ count = Cardinality(Range(fresh))
                /\ Len(pool') = Len(pool) + count
                /\ count = 0 => UNCHANGED <<pool, claims, keys_json, claims_json>>]_vars

\* C10: the pool contains no duplicate key.
C10_PoolNoDuplicates ==
    \A i, j \in 1..Len(pool) : pool[i] = pool[j] => i = j

\* C11: remove_key_from_pool(key) strips a pooled key from the pool (the other
\* keys keep their order), leaves the claims alone and returns True; for a key
\* that is not pooled but claimed it removes the claim(s) of that key, leaves
\* the pool alone and returns True, the key then being neither pooled nor
\* claimed; it returns False exactly when the key is in neither place, and
\* then changes nothing.
C11_RemoveKey ==
    [][last'.op = "remove_key_from_pool" =>
        LET key == last'.key
            pooled == \E i \in 1..Len(pool) : pool[i] = key
            claimed == \E u \in DOMAIN claims : claims[u] = key
        IN  /\ last'.retBool = (pooled \/ claimed)
            /\ pooled =>
                /\ \A i \in 1..Len(pool') : pool'[i] # key
                /\ pool' = SelectSeq(pool, LAMBDA k : k # key)
                /\ claims' = claims
            /\ (~pooled /\ claimed) =>
                /\ pool' = pool
                /\ \A u \in DOMAIN claims' : claims'[u] # key
                /\ \A u \in DOMAIN claims :
                       claims[u] # key => (u \in DOMAIN claims' /\ claims'[u] = claims[u])
                /\ DOMAIN claims' \subseteq DOMAIN claims
            /\ (~pooled /\ ~claimed) =>
                UNCHANGED <<pool, claims, keys_json, claims_json>>]_vars

\* C11 witness: a key was removed and is in neither place, while another key
\* is still pooled and another claim still stands.
C11_Witness ==
    /\ last.op = "remove_key_from_pool"
    /\ last.retBool
    /\ last.key \notin Range(pool) \cup ClaimValues
    /\ pool # <<>>
    /\ DOMAIN claims # {}

\* C13: assign_key_to_user for an identity that holds a claim returns False
\* and changes neither pool, claims nor the documents; otherwise it binds the
\* identity to the key, and with remove_from_pool the key is absent from the
\* pool afterwards, the other pool keys keeping their order.
C13_AssignFrame ==
    [][last'.op = "assign_key_to_user" =>
        IF last'.uid \in DOMAIN claims
        THEN /\ last'.retBool = FALSE
             /\ UNCHANGED <<pool, claims, keys_json, claims_json>>
        ELSE /\ last'.retBool = TRUE
             /\ last'.uid \in DOMAIN claims'
             /\ claims'[last'.uid] = last'.key
             /\ last'.flag =>
                 /\ \A i \in 1..Len(pool') : pool'[i] # last'.key
                 /\ pool' = SelectSeq(pool, LAMBDA k : k # last'.key)]_vars

\* C12: set_config with a mode outside {account, guild} raises and leaves the
\* whole configuration, in memory and in the pool document, as it was, also
\* when a valid min_days comes with it.
C12_InvalidModeNoChange ==
    [][\A d \in DaysArgs, m \in ModeArgs :
        (set_config(d, m) /\ m # None /\ The(m) \notin {"account", "guild"}) =>
            /\ last'.retBool = FALSE
            /\ config' = config
            /\ keys_json' = keys_json]_vars

\* C14: at rest, a ledger restarted from the two documents has the pool, the
\* claim map and the configuration that are in memory.
C14_Durable ==
    /\ LoadPool(keys_json) = pool
    /\ LoadClaims(claims_json) = claims
    /\ LoadConfig(keys_json) = config

\* C20: with add_keys and claim calls only, the key a claim call returns was
\* not returned by claim to another identity before (the claim map holds
\* exactly the keys claim has returned, there being no revocation).
C20_OneTimeAllocation ==
    [][(last'.op = "claim" /\ last'.retKey # None) =>
        \A v \in DOMAIN claims :
            v # last'.uid => claims[v] \notin last'.retKey]_vars

\* C15: when a save of a mutating call raises, the call does not return a
\* result and pool, claims and configuration in memory are what they were
\* when the call began.
C15_FailedSaveNoChange ==
    \A t \in TaskIds :
        task[t].err = "OSError" =>
            /\ task[t].pc # "returned"
            /\ pool = task[t].snap.pool
            /\ claims = task[t].snap.claims
            /\ config = task[t].snap.config

\* Positions from taking the lock to giving it back
CriticalPcs ==
    {"add_keys", "claim", "claim_bind", "revoke_claim", "revoke_return",
     "assign_key_to_user", "assign_bind", "remove_key_from_pool",
     "set_config", "set_config_mode",
     "save_pool", "save_pool_dump", "save_pool_replace",
     "save_claims", "save_claims_dump", "save_claims_replace", "release"}

\* The tasks inside a read-modify-write-persist section
Inside == {t \in TaskIds : task[t].pc \in CriticalPcs}

\* C16: at most one task is inside a read-modify-write-persist section, it
\* holds the lock, and until it leaves no other task takes a step, so the
\* calls take effect one after another in some serial order.
C16_MutualExclusion ==
    [][/\ Cardinality({t \in TaskIds : task'[t].pc \in CriticalPcs}) <= 1
       /\ \A t \in Inside :
            /\ locked
            /\ \A u \in TaskIds \ {t} : task'[u] = task[u]]_vars

\* C16 witness: a task is between the two memory writes of claim, holding the
\* lock, after an earlier call has filled the pool; the other tasks are out.
C16_Witness ==
    \E t \in TaskIds :
        /\ task[t].pc = "claim_bind"
        /\ locked
        /\ keys_json # None
        /\ \A u \in TaskIds \ {t} : task[u].pc = "idle"

\* C17: a query that takes no lock runs only when no mutation is part-way
\* through, and what it returns is the state between two whole mutations.
C17_QueriesSeeWholeStates ==
    [][\A t \in TaskIds :
        (task[t].pc = "idle" /\ task'[t].op \in Queries) =>
            /\ \A u \in TaskIds : task[u].pc \notin CriticalPcs
            /\ ~locked
            /\ task'[t].snap.pool = pool
            /\ task'[t].snap.claims = claims
            /\ task'[t].retBool = (task'[t].uid \in DOMAIN claims)]_vars

\* C17 witness: a query has returned the key an identity holds, the pool
\* being non-empty.
C17_Witness ==
    \E t \in TaskIds :
        /\ task[t].op = "get_claim"
        /\ task[t].pc = "returned"
        /\ task[t].retKey # None
        /\ pool # <<>>

\* C18: a document on disk never holds an incomplete text; it changes only
\* in the os.replace step of a save that then goes on, and only to the
\* complete new content, so a save cut short at any step (by a crash
\* included) leaves the previous content in place.
C18_AtomicReplace ==
    [][/\ "keys.json" \notin torn'
       /\ "claims.json" \notin torn'
       /\ keys_json' # keys_json =>
            \E t \in TaskIds :
                /\ task[t].pc = "save_pool_replace"
                /\ task'[t].pc \in {"save_claims", "release"}
                /\ keys_json' = {[pool |-> pool, config |-> config]}
       /\ claims_json' # claims_json =>
            \E t \in TaskIds :
                /\ task[t].pc = "save_claims_replace"
                /\ task'[t].pc = "release"
                /\ claims_json' = {claims}]_vars

\* C18 witness: the temporary file of a pool save is part-written while
\* keys.json holds the previous, different, document.
C18_Witness ==
    \E t \in TaskIds :
        /\ task[t].pc = "save_pool_dump"
        /\ "tmp" \in torn
        /\ keys_json # None
        /\ keys_json # tmp.keys

\* Keys that are both in pool p and claimed in claim map c
Overlap(p, c) == {k \in Range(p) : \E u \in DOMAIN c : c[u] = k}

\* C19: when the process dies between the pool save and the claims save of
\* claim, revoke_claim or assign_key_to_user (begun with no key both pooled
\* and claimed) and is started again, no key is both in the reloaded pool and
\* in the reloaded claim map.
C19_CrashBetweenSaves ==
    [][\A t \in TaskIds :
        (/\ Crash
         /\ task[t].op \in {"claim", "revoke_claim", "assign_key_to_user"}
         /\ task[t].pc \in {"save_claims", "save_claims_dump", "save_claims_replace"}
         /\ Overlap(task[t].snap.pool, task[t].snap.claims) = {})
        => Overlap(pool', claims') = {}]_vars

\* C21: every mutating call that has taken the lock goes on to return or
\* raise, and whenever no call is between lock and release the lock is free,
\* also after a call that raised (the mode test of set_config, a failed
\* save), so a call made later can enter.
C21_LockReleaseAndProgress ==
    /\ []((\A t \in TaskIds : task[t].pc \notin CriticalPcs) => ~locked)
    /\ \A t \in TaskIds :
         (task[t].pc \in CriticalPcs) ~> (task[t].pc \in {"returned", "raised"})
    /\ \A t \in TaskIds :
         (task[t].pc \in {"returned", "raised"}) ~> (task[t].pc = "idle" /\ ~locked)

\* C21 witness: after a save has failed, a later claim is inside its body.
C21_Witness ==
    \E t \in TaskIds :
        /\ save_failures > 0
        /\ task[t].pc = "claim_bind"
        /\ task[t].err = ""

====
